---- MODULE Spec2Model ----
(***************************************************************************)
(* Model of src/main.py: the AutoFocusProcessor (depth normalisation,      *)
(* focus-plane estimation, blur-mask construction, compositing), the       *)
(* process_auto_focus orchestration, the /auto-focus endpoint and the      *)
(* startup hook.                                                           *)
(*                                                                         *)
(* Numbers.  Depth values are fixed point with denominator Den (a value v  *)
(* stands for v/Den).  Focus planes, bin edges and distances are kept in   *)
(* "fine" units of 1/(200*Den), in which the median of an even count, the  *)
(* midpoint of a histogram bin and the mean of the two are exact.  Mask    *)
(* values are fixed point with denominator MaskDen.  Arithmetic is that of *)
(* the reals the code's floats approximate; NaN is modelled explicitly.    *)
(***************************************************************************)
EXTENDS Integers, Sequences, FiniteSets, TLC

VARIABLES processor, startup, loads, asked, req, tc, out, rz

vars == <<processor, startup, loads, asked, req, tc, out, rz>>

(* ------------------------------------------------------------------ *)
(* Number representation                                                *)
(* ------------------------------------------------------------------ *)

\* depth values: v stands for v / Den
Den == 100

\* mask / blend weights: k stands for k / MaskDen
MaskDen == 1000

\* fine units per 1.0
Fine == 200 * Den

\* numpy's nan, produced by 0/0 at line 76 and by the median of an empty slice
NaN == -999999

Abs(x) == IF x < 0 THEN -x ELSE x

MinOf(S) == CHOOSE x \in S : \A y \in S : x <= y

MaxOf(S) == CHOOSE x \in S : \A y \in S : y <= x


(* ------------------------------------------------------------------ *)
(* Grids (numpy 2-D arrays), 0-indexed as in the source                 *)
(* ------------------------------------------------------------------ *)

\* a function built pointwise, tabulated once: comparing it makes TLC
\* enumerate it, after which an application is a lookup
Tabulated(f) == IF f = f THEN f ELSE f

Pos(h, w) == (0 .. (h - 1)) \X (0 .. (w - 1))

Grid(h, w, f) == [h |-> h, w |-> w, v |-> Tabulated([p \in Pos(h, w) |-> f[p]])]

NoGrid == [h |-> 0, w |-> 0, v |-> <<>>]

Values(g) == {g.v[p] : p \in DOMAIN g.v}

\* cv2.borderInterpolate with BORDER_REFLECT_101 (the default border of GaussianBlur)
Reflect101(i, n) ==
    IF n = 1 THEN 0
    ELSE LET period == 2 * (n - 1)
             j == i % period
         IN IF j < n THEN j ELSE period - j

\* one tap weight per distance from the kernel centre, scaled by 1000
\* taps[d + 1] = round(1000 * exp(-d^2 / (2 sigma^2)))
RECURSIVE SumTo(_, _)
SumTo(f, n) == IF n = 0 THEN 0 ELSE f[n] + SumTo(f, n - 1)

TapTotal(taps) == 2 * SumTo(taps, Len(taps)) - taps[1]

\* one line of values under the kernel, rounded to the nearest unit: line is
\* a function on 0 .. n-1
BlurLine(line, n, taps) ==
    LET R == Len(taps) - 1
        tot == TapTotal(taps)
    IN Tabulated([i \in 0 .. (n - 1) |->
          (2 * SumTo([k \in 1 .. (2 * R + 1) |->
                        taps[Abs(k - 1 - R) + 1] * line[Reflect101(i + k - 1 - R, n)]],
                     2 * R + 1) + tot) \div (2 * tot)])

\* horizontal pass of the separable kernel
BlurRows(g, taps) ==
    LET rows == Tabulated([y \in 0 .. (g.h - 1) |->
                    BlurLine(Tabulated([x \in 0 .. (g.w - 1) |-> g.v[<<y, x>>]]), g.w, taps)])
    IN [g EXCEPT !.v = Tabulated([p \in DOMAIN g.v |-> rows[p[1]][p[2]]])]

\* vertical pass
BlurCols(g, taps) ==
    LET cols == Tabulated([x \in 0 .. (g.w - 1) |->
                    BlurLine(Tabulated([y \in 0 .. (g.h - 1) |-> g.v[<<y, x>>]]), g.h, taps)])
    IN [g EXCEPT !.v = Tabulated([p \in DOMAIN g.v |-> cols[p[2]][p[1]]])]

\* cv2.GaussianBlur on one channel
GaussianBlur(g, taps) ==
    LET rows == BlurRows(g, taps)
    IN BlurCols(rows, taps)

(* ------------------------------------------------------------------ *)
(* Results of a call: a value, or a raised Python exception             *)
(* ------------------------------------------------------------------ *)

Exc(type, msg) == [type |-> type, msg |-> msg]

NoExc == Exc("none", "")

Ok(x) == [ok |-> TRUE, val |-> x, exc |-> NoExc]

Raise(e, dflt) == [ok |-> FALSE, val |-> dflt, exc |-> e]

(* ------------------------------------------------------------------ *)
(* Images: h x w pixels of three channels 0..255                        *)
(* ------------------------------------------------------------------ *)

Channel(img, c) == [img EXCEPT !.v = Tabulated([p \in DOMAIN img.v |-> img.v[p][c]])]

(* ------------------------------------------------------------------ *)
(* _estimate_depth                                                      *)
(* ------------------------------------------------------------------ *)

\* the depth network applied to the transformed image and interpolated back
\* to the image's size: a fixed function of the pixels (here their channel sum)
DepthNetwork(img) == Grid(img.h, img.w, [y \in 0 .. (img.h - 1), x \in 0 .. (img.w - 1) |-> img.v[<<y, x>>][1] + img.v[<<y, x>>][2] + img.v[<<y, x>>][3]])

\* depth_map = (depth_map - min) / (max - min); 0/0 is nan, without an exception
NormalizeDepth(raw) ==
    LET mn == MinOf(Values(raw))
        mx == MaxOf(Values(raw))
    IN [raw EXCEPT !.v = Tabulated([p \in DOMAIN raw.v |->
            IF mx = mn THEN NaN ELSE ((raw.v[p] - mn) * Den) \div (mx - mn)])]

EstimateDepth(proc, img) ==
    IF ~proc.models_loaded
    THEN Raise(Exc("ValueError", "Depth model not loaded"), NoGrid)
    ELSE Ok(NormalizeDepth(DepthNetwork(img)))

(* ------------------------------------------------------------------ *)
(* _find_subject_focus_plane                                            *)
(* ------------------------------------------------------------------ *)

\* np.histogram(..., bins=50)
Bins == 50

\* depth_map[h//4 : 3*h//4, w//4 : 3*w//4]
CenterRegion(dm) ==
    {p \in DOMAIN dm.v : /\ dm.h \div 4 <= p[1] /\ p[1] < (3 * dm.h) \div 4
                         /\ dm.w \div 4 <= p[2] /\ p[2] < (3 * dm.w) \div 4}

\* the k-th smallest (k = 1 is the minimum) of the values at the positions P
KthSmallest(dm, P, k) ==
    CHOOSE v \in {dm.v[p] : p \in P} :
        /\ Cardinality({p \in P : dm.v[p] <= v}) >= k
        /\ Cardinality({p \in P : dm.v[p] < v}) < k

\* np.median, in fine units
MedianFine(dm, P) ==
    LET n == Cardinality(P)
    IN IF n % 2 = 1
       THEN 200 * KthSmallest(dm, P, (n + 1) \div 2)
       ELSE 100 * (KthSmallest(dm, P, n \div 2) + KthSmallest(dm, P, n \div 2 + 1))

\* np.histogram's range: (min, max), widened by 0.5 each side when min == max
HistFirst(dm, P) ==
    LET mn == MinOf({dm.v[p] : p \in P})
        mx == MaxOf({dm.v[p] : p \in P})
    IN IF mn = mx THEN 200 * mn - Fine \div 2 ELSE 200 * mn

HistLast(dm, P) ==
    LET mn == MinOf({dm.v[p] : p \in P})
        mx == MaxOf({dm.v[p] : p \in P})
    IN IF mn = mx THEN 200 * mx + Fine \div 2 ELSE 200 * mx

\* the bin a value falls in; the last bin is closed on the right
BinOf(a, first, last) ==
    LET i == ((200 * a - first) * Bins) \div (last - first)
    IN IF i >= Bins THEN Bins - 1 ELSE i

\* np.argmax(hist): the first bin with the highest count
MostCommonBin(dm, P) ==
    LET first == HistFirst(dm, P)
        last == HistLast(dm, P)
        cnt == [k \in 0 .. (Bins - 1) |-> Cardinality({p \in P : BinOf(dm.v[p], first, last) = k})]
        top == MaxOf({cnt[k] : k \in 0 .. (Bins - 1)})
    IN MinOf({k \in 0 .. (Bins - 1) : cnt[k] = top})

\* (bin_edges[k] + bin_edges[k + 1]) / 2, in fine units
BinMidFine(dm, P) ==
    LET first == HistFirst(dm, P)
        width == HistLast(dm, P) - first
    IN first + MostCommonBin(dm, P) * (width \div Bins) + width \div (2 * Bins)

\* The code has no size check: an empty central slice gives median nan (and
\* a histogram over the default range), hence focus plane nan; a slice of
\* nan makes np.histogram raise ValueError (range is not finite).
FindSubjectFocusPlane(dm) ==
    LET P == CenterRegion(dm)
    IN IF P = {} THEN Ok(NaN)
       ELSE IF NaN \in {dm.v[p] : p \in P} THEN Raise(Exc("ValueError", "autodetected range of [nan, nan] is not finite"), NaN)
       ELSE Ok((MedianFine(dm, P) + BinMidFine(dm, P)) \div 2)

(* ------------------------------------------------------------------ *)
(* _create_blur_mask                                                    *)
(* ------------------------------------------------------------------ *)

\* cv2.GaussianBlur(..., (21, 21), 0): sigma = 0.3*((21-1)*0.5 - 1) + 0.8 = 3.5
MaskTaps == <<1000, 960, 849, 693, 520, 360, 230, 135, 73, 37, 17>>

\* a focus range is the rational num/den
InBand(dist, rng) == dist # NaN /\ dist * rng.den <= rng.num * Fine

\* np.abs(depth_map - focus_plane), in fine units; nan if either is nan
DistanceFromFocus(dm, fp) ==
    [dm EXCEPT !.v = Tabulated([p \in DOMAIN dm.v |->
        IF fp = NaN \/ dm.v[p] = NaN THEN NaN ELSE Abs(200 * dm.v[p] - fp)])]

\* the intensity without line 122 (the band is not zeroed)
BlurIntensityNoBand(dm, fp, rng) ==
    LET dist == DistanceFromFocus(dm, fp)
        isnan == NaN \in Values(dist)
        mx == IF isnan THEN NaN ELSE MaxOf(Values(dist))
    IN [dm EXCEPT !.v = Tabulated([p \in DOMAIN dm.v |->
            IF isnan \/ mx <= 0 THEN 0
            ELSE (dist.v[p] * MaskDen) \div mx])]

\* lines 115-122: normalise by the largest distance, then zero the band
BlurIntensity(dm, fp, rng) ==
    LET dist == DistanceFromFocus(dm, fp)
        isnan == NaN \in Values(dist)
        mx == IF isnan THEN NaN ELSE MaxOf(Values(dist))
    IN [dm EXCEPT !.v = Tabulated([p \in DOMAIN dm.v |->
            IF isnan \/ mx <= 0 THEN 0
            ELSE IF InBand(dist.v[p], rng) THEN 0
            ELSE (dist.v[p] * MaskDen) \div mx])]

CreateBlurMask(dm, fp, rng) == GaussianBlur(BlurIntensity(dm, fp, rng), MaskTaps)

(* ------------------------------------------------------------------ *)
(* _apply_depth_blur_optimized                                          *)
(* ------------------------------------------------------------------ *)

\* kernel (2r+1) x (2r+1), sigma r/3, for the radii the model draws
ImageTaps(r) ==
    CASE r = 2 -> <<1000, 325, 11>>
      [] r = 3 -> <<1000, 607, 135, 11>>
      [] OTHER -> <<1000, 835, 487, 198, 56, 11>>

\* cv2.GaussianBlur(image_np, (kernel_size, kernel_size), max_blur_radius/3)
BlurImage(img, r) ==
    LET c1 == GaussianBlur(Channel(img, 1), ImageTaps(r))
        c2 == GaussianBlur(Channel(img, 2), ImageTaps(r))
        c3 == GaussianBlur(Channel(img, 3), ImageTaps(r))
    IN [img EXCEPT !.v = Tabulated([p \in DOMAIN img.v |-> <<c1.v[p], c2.v[p], c3.v[p]>>])]

\* the blend with its two weights exchanged
BlendSwapped(m, a, b) == ((m * a + (MaskDen - m) * b) \div MaskDen) % 256

\* (1 - m) * a + m * b in floating point, then astype(np.uint8)
Blend(m, a, b) == (((MaskDen - m) * a + m * b) \div MaskDen) % 256

ApplyDepthBlurOptimized(img, mask, r) ==
    LET blurred == BlurImage(img, r)
    IN [img EXCEPT !.v = Tabulated([p \in DOMAIN img.v |->
            <<Blend(mask.v[p], img.v[p][1], blurred.v[p][1]),
              Blend(mask.v[p], img.v[p][2], blurred.v[p][2]),
              Blend(mask.v[p], img.v[p][3], blurred.v[p][3])>>])]

(* ------------------------------------------------------------------ *)
(* process_auto_focus: the focus range                                  *)
(* ------------------------------------------------------------------ *)

\* focus_strength is kept in tenths (fs10 = 10 * focus_strength), so that
\* focus_range = 0.1 / focus_strength = 1 / fs10; the caller handles fs10 = 0
FocusRange(fs10) == [num |-> IF fs10 < 0 THEN -1 ELSE 1, den |-> Abs(fs10)]

(* ------------------------------------------------------------------ *)
(* process_auto_focus: the processing size (lines 187-199)              *)
(* ------------------------------------------------------------------ *)

\* max_size
MaxSize == 512

Larger(a, b) == IF a >= b THEN a ELSE b

\* (side, larger side) up to 700 for which the double product
\* side * (512 / larger) lies just below the integer side * 512 / larger
TruncatesLow ==
    {<<561, 561>>, <<569, 569>>, <<161, 644>>, <<322, 644>>, <<644, 644>>,
     <<685, 685>>, <<691, 691>>, <<347, 694>>, <<694, 694>>}

\* int(side * scale) with scale = max_size / max(original_height, original_width)
ScaledSide(side, larger) ==
    (side * MaxSize) \div larger - (IF <<side, larger>> \in TruncatesLow THEN 1 ELSE 0)

\* scale_back and the size handed to cv2.resize
ProcessingSize(ow, oh) ==
    IF Larger(oh, ow) > MaxSize
    THEN [scale_back |-> TRUE, w |-> ScaledSide(ow, Larger(oh, ow)), h |-> ScaledSide(oh, Larger(oh, ow))]
    ELSE [scale_back |-> FALSE, w |-> ow, h |-> oh]

\* cv2.resize(src, (w, h)): an empty destination size is an error; the
\* pixels are sampled at the nearest source position
Resize(g, w, h) ==
    IF w <= 0 \/ h <= 0
    THEN Raise(Exc("cv2.error", "resize: inv_scale_x > 0"), NoGrid)
    ELSE Ok(Grid(h, w, [y \in 0 .. (h - 1), x \in 0 .. (w - 1) |-> g.v[<<(y * g.h) \div h, (x * g.w) \div w>>]]))

(* ------------------------------------------------------------------ *)
(* Requests                                                             *)
(* ------------------------------------------------------------------ *)

\* concurrent calls
NReq == 2

Requests == 1 .. NReq

\* uploaded bytes ("corrupt", "grey", "corner", "sliver") and what
\* Image.open(...).convert('RGB') makes of them
DecodeImage(bytes) ==
    CASE bytes = "grey" -> Ok(Grid(2, 2, [y \in 0 .. 1, x \in 0 .. 1 |-> <<128, 128, 128>>]))
      [] bytes = "corner" -> Ok(Grid(3, 3, [y \in 0 .. 2, x \in 0 .. 2 |->
                                IF x = 0 /\ y = 0 THEN <<255, 200, 10>> ELSE <<x * 40, 30, 90 + y>>]))
      [] bytes = "sliver" -> Ok([h |-> MaxSize + 1, w |-> 1,
                                 v |-> [p \in Pos(MaxSize + 1, 1) |-> <<p[1] % 256, 0, 7>>]])
      [] OTHER -> Raise(Exc("UnidentifiedImageError", "cannot identify image file"), NoGrid)

Args(via, ct, img, fs10, r) ==
    [via |-> via, content_type |-> ct, image_bytes |-> img, focus_strength |-> fs10, blur_radius |-> r]

NoArgs == Args("none", "none", "none", 0, 0)

\* direct calls of process_auto_focus: focus_strength 1.0 and 0, blur_radius 3
DirectCalls ==
    {Args("direct", "none", i, 10, 3) : i \in {"sliver", "grey", "corner"}}
    \cup {Args("direct", "none", i, 0, 3) : i \in {"grey", "corner"}}

\* uploads: valid ones, and one for each check of the endpoint
Posts ==
    {Args("endpoint", "image/png", i, 10, 3) : i \in {"corrupt", "grey", "corner"}}
    \cup {Args("endpoint", "image/png", "corner", 0, 3),
          Args("endpoint", "image/png", "corner", 10, 2),
          Args("endpoint", "text/plain", "corner", 10, 3)}

NoBody == [processed_image |-> NoGrid, depth_map |-> NoGrid, focus_plane_depth |-> 0,
           width |-> 0, height |-> 0, focus_strength |-> 0, blur_radius |-> 0,
           scaled_for_processing |-> FALSE]

\* what reaches the caller: a returned body (status 200) or an HTTPException
Response(status, kind, detail, msg, body) ==
    [status |-> status, kind |-> kind, detail |-> detail, msg |-> msg, body |-> body]

NoResponse == Response(0, "none", "none", "", NoBody)

HTTPException(status, detail, msg) == Response(status, "HTTPException", detail, msg, NoBody)

\* the error replaced as at line 302, its message dropped
ProcessingFailedOpaque(e) == HTTPException(500, "Internal server error", "")

\* line 253: HTTPException(500, f"Processing failed: {str(e)}")
ProcessingFailed(e) == HTTPException(500, "Processing failed", e.msg)

\* line 181
ModelNotLoaded == HTTPException(503, "Depth model not loaded", "")

\* the locals of one call; args are the arguments it was entered with
NoFrame ==
    [pc |-> "new", args |-> NoArgs, seen |-> "unknown", stages |-> {},
     image_np |-> NoGrid, processed |-> NoGrid, scale_back |-> FALSE,
     depth_map |-> NoGrid, focus_plane |-> 0, blur_mask |-> NoGrid,
     result_image |-> NoGrid, raised |-> NoExc, response |-> NoResponse]

\* the call returns or raises: its locals are discarded
Return(f, resp, e) ==
    [f EXCEPT !.pc = "done", !.response = resp, !.raised = e,
              !.image_np = NoGrid, !.processed = NoGrid, !.depth_map = NoGrid,
              !.blur_mask = NoGrid, !.result_image = NoGrid]

\* line 251-253: any exception raised inside the try block
Caught(f, e) == Return(f, ProcessingFailed(e), e)

\* every call working in the locals of the first one
SharedFrame(r) == req[1]

\* the locals of call r
Frame(r) == req[r]

\* lines 277-285: the endpoint's checks, in order
Validate(a) ==
    IF a.content_type \notin {"image/png", "image/jpeg"}
    THEN HTTPException(400, "File must be an image", "")
    ELSE IF ~(1 <= a.focus_strength /\ a.focus_strength <= 30)
    THEN HTTPException(400, "focus_strength must be between 0.1 and 3.0", "")
    ELSE IF ~(3 <= a.blur_radius /\ a.blur_radius <= 50)
    THEN HTTPException(400, "blur_radius must be between 3 and 50", "")
    ELSE NoResponse

\* the guard of line 180 dropped
ModelsReadyUnchecked(proc) == TRUE

\* line 180: if not self.models_loaded
ModelsReady(proc) == proc.models_loaded

\* line 180-181, on entry to process_auto_focus
Entered(f, proc) ==
    IF ModelsReady(proc)
    THEN [f EXCEPT !.pc = "decode", !.seen = IF proc.models_loaded THEN "yes" ELSE "no"]
    ELSE [Return(f, ModelNotLoaded, NoExc) EXCEPT !.seen = "no"]

\* lines 185-199
Decoded(f) ==
    LET img == DecodeImage(f.args.image_bytes)
        size == ProcessingSize(img.val.w, img.val.h)
        small == Resize(img.val, size.w, size.h)
        g == [f EXCEPT !.stages = @ \cup {"decode"}]
    IN IF ~img.ok THEN Caught(g, img.exc)
       ELSE IF ~size.scale_back
       THEN [g EXCEPT !.pc = "depth", !.image_np = img.val, !.processed = img.val,
                      !.scale_back = FALSE]
       ELSE IF ~small.ok THEN Caught(g, small.exc)
       ELSE [g EXCEPT !.pc = "depth", !.image_np = img.val, !.processed = small.val,
                      !.scale_back = TRUE]

\* line 203
DepthEstimated(f, proc) ==
    LET d == EstimateDepth(proc, f.processed)
        g == [f EXCEPT !.stages = @ \cup {"depth"}]
    IN IF d.ok THEN [g EXCEPT !.pc = "focus", !.depth_map = d.val] ELSE Caught(g, d.exc)

\* line 206
FocusFound(f) ==
    LET fp == FindSubjectFocusPlane(f.depth_map)
        g == [f EXCEPT !.stages = @ \cup {"focus"}]
    IN IF fp.ok THEN [g EXCEPT !.pc = "mask", !.focus_plane = fp.val] ELSE Caught(g, fp.exc)

\* lines 209-210: 0.1 / focus_strength raises ZeroDivisionError for 0
MaskCreated(f) ==
    LET g == [f EXCEPT !.stages = @ \cup {"focus_range"}]
    IN IF f.args.focus_strength = 0
       THEN Caught(g, Exc("ZeroDivisionError", "float division by zero"))
       ELSE [g EXCEPT !.pc = "blur", !.stages = @ \cup {"mask"},
                      !.blur_mask = CreateBlurMask(f.depth_map, f.focus_plane,
                                                   FocusRange(f.args.focus_strength))]

\* lines 213-215
Blurred(f) ==
    [f EXCEPT !.pc = "finish", !.stages = @ \cup {"blur"},
              !.result_image = ApplyDepthBlurOptimized(f.processed, f.blur_mask, f.args.blur_radius)]

\* Image.fromarray(...).save(format='JPEG'), base64: the encoded picture
Encoded(g) == [g EXCEPT !.v = Tabulated([p \in DOMAIN g.v |-> <<"jpeg", g.v[p]>>])]

\* line 230: (depth_map * 255).astype(np.uint8)
DepthVis(dm) == [dm EXCEPT !.v = Tabulated([p \in DOMAIN dm.v |-> ((dm.v[p] * 255) \div Den) % 256])]

\* lines 217-249
Finished(f) ==
    LET back(g) == IF f.scale_back THEN Resize(g, f.image_np.w, f.image_np.h).val ELSE g
        body == [processed_image |-> Encoded(back(f.result_image)),
                 depth_map |-> Encoded(DepthVis(back(f.depth_map))),
                 focus_plane_depth |-> f.focus_plane,
                 width |-> f.image_np.w, height |-> f.image_np.h,
                 focus_strength |-> f.args.focus_strength,
                 blur_radius |-> f.args.blur_radius,
                 scaled_for_processing |-> f.scale_back]
    IN Return([f EXCEPT !.stages = @ \cup {"encode"}], Response(200, "none", "OK", "", body), NoExc)

\* process_auto_focus run from entry to its return, with nothing in between
RECURSIVE RunToEnd(_, _)
RunToEnd(f, proc) ==
    CASE f.pc = "enter" -> RunToEnd(Entered(f, proc), proc)
      [] f.pc = "decode" -> RunToEnd(Decoded(f), proc)
      [] f.pc = "depth" -> RunToEnd(DepthEstimated(f, proc), proc)
      [] f.pc = "focus" -> RunToEnd(FocusFound(f), proc)
      [] f.pc = "mask" -> RunToEnd(MaskCreated(f), proc)
      [] f.pc = "blur" -> RunToEnd(Blurred(f), proc)
      [] f.pc = "finish" -> RunToEnd(Finished(f), proc)
      [] OTHER -> f

ProcessAutoFocus(a, proc) == RunToEnd([NoFrame EXCEPT !.pc = "enter", !.args = a], proc)

(* ------------------------------------------------------------------ *)
(* Startup: load_depth_model (lines 32-50)                              *)
(* ------------------------------------------------------------------ *)

LoadOutcomes == {"loaded", "model_download_fails", "transforms_download_fails"}

LoadDepthModel(proc, outcome) ==
    CASE outcome = "loaded" ->
            [proc EXCEPT !.model = "MiDaS_small", !.transform = "small_transform",
                         !.models_loaded = TRUE]
      [] outcome = "transforms_download_fails" ->
            [proc EXCEPT !.model = "MiDaS_small", !.models_loaded = FALSE]
      [] OTHER -> [proc EXCEPT !.models_loaded = FALSE]

NoProcessor == [device |-> "cpu", model |-> "None", transform |-> "None", models_loaded |-> FALSE]

\* startup_event
Startup ==
    /\ startup = "pending"
    /\ \E outcome \in LoadOutcomes :
          /\ processor' = LoadDepthModel(processor, outcome)
          /\ startup' = IF outcome = "loaded" THEN "complete" ELSE "failed"
    /\ loads' = loads + 1
    /\ UNCHANGED <<asked, req, tc, out, rz>>

(* ------------------------------------------------------------------ *)
(* Calls, one step per stage                                            *)
(* ------------------------------------------------------------------ *)

Step(r, f) ==
    /\ req' = [req EXCEPT ![r] = f]
    /\ UNCHANGED <<processor, startup, loads, tc, out, rz>>

\* calls are numbered in the order in which they arrive
NextToArrive(r) == \A q \in Requests : q < r => req[q].pc # "new"

\* process_auto_focus called directly
Call(r) ==
    /\ Frame(r).pc = "new" /\ NextToArrive(r)
    /\ \E a \in DirectCalls :
          /\ asked' = [asked EXCEPT ![r] = a]
          /\ Step(r, Entered([Frame(r) EXCEPT !.args = a], processor))

\* POST /auto-focus up to "await file.read()"
Post(r) ==
    /\ Frame(r).pc = "new" /\ NextToArrive(r)
    /\ \E a \in Posts :
          /\ asked' = [asked EXCEPT ![r] = a]
          /\ Step(r, IF Validate(a) = NoResponse
                     THEN [Frame(r) EXCEPT !.args = a, !.pc = "read"]
                     ELSE Return([Frame(r) EXCEPT !.args = a], Validate(a), NoExc))

\* line 292: the endpoint enters process_auto_focus
Enter(r) ==
    /\ Frame(r).pc = "read"
    /\ Step(r, Entered(Frame(r), processor))
    /\ UNCHANGED asked

Decode(r) ==
    /\ Frame(r).pc = "decode"
    /\ Step(r, Decoded(Frame(r)))
    /\ UNCHANGED asked

Depth(r) ==
    /\ Frame(r).pc = "depth"
    /\ Step(r, DepthEstimated(Frame(r), processor))
    /\ UNCHANGED asked

Focus(r) ==
    /\ Frame(r).pc = "focus"
    /\ Step(r, FocusFound(Frame(r)))
    /\ UNCHANGED asked

Mask(r) ==
    /\ Frame(r).pc = "mask"
    /\ Step(r, MaskCreated(Frame(r)))
    /\ UNCHANGED asked

Blur(r) ==
    /\ Frame(r).pc = "blur"
    /\ Step(r, Blurred(Frame(r)))
    /\ UNCHANGED asked

Finish(r) ==
    /\ Frame(r).pc = "finish"
    /\ Step(r, Finished(Frame(r)))
    /\ UNCHANGED asked

Init ==
    /\ processor = NoProcessor
    /\ startup = "pending"
    /\ loads = 0
    /\ asked = [r \in Requests |-> NoArgs]
    /\ req = [r \in Requests |-> NoFrame]
    /\ tc = <<>>
    /\ out = <<>>
    /\ rz = <<>>

Next ==
    \/ Startup
    \/ \E r \in Requests : Call(r)
    \/ \E r \in Requests : Post(r)
    \/ \E r \in Requests : Enter(r)
    \/ \E r \in Requests : Decode(r)
    \/ \E r \in Requests : Depth(r)
    \/ \E r \in Requests : Focus(r)
    \/ \E r \in Requests : Mask(r)
    \/ \E r \in Requests : Blur(r)
    \/ \E r \in Requests : Finish(r)

Spec == Init /\ [][Next]_vars

(* ------------------------------------------------------------------ *)
(* Stage inputs: the grids the stages are applied to                    *)
(* ------------------------------------------------------------------ *)

\* largest side of a grid
MaxGrid == 8

GridSides == {1, 2, 4, MaxGrid}

\* normalised depth maps
DepthPatterns == {"uniform0", "uniformHalf", "uniform1", "ramp", "centre", "centreFar", "checker", "steps"}

UniformPatterns == {"uniform0", "uniformHalf", "uniform1"}

DepthPattern(pat, h, w) ==
    Grid(h, w, [y \in 0 .. (h - 1), x \in 0 .. (w - 1) |->
        CASE pat = "uniform0" -> 0
          [] pat = "uniformHalf" -> Den \div 2
          [] pat = "uniform1" -> Den
          [] pat = "ramp" -> IF w = 1 THEN (y * Den) \div h ELSE (x * Den) \div (w - 1)
          [] pat = "centre" -> IF /\ h \div 4 <= y /\ y < (3 * h) \div 4
                                  /\ w \div 4 <= x /\ x < (3 * w) \div 4 THEN 0 ELSE Den
          [] pat = "centreFar" -> IF /\ h \div 4 <= y /\ y < (3 * h) \div 4
                                     /\ w \div 4 <= x /\ x < (3 * w) \div 4 THEN Den ELSE 0
          [] pat = "checker" -> ((x + y) % 2) * Den
          [] OTHER -> ((3 * x + 5 * y) % 7) * (Den \div 7)])

\* raw network outputs
RawPatterns == {"flat", "slope", "spike"}

RawPattern(pat, h, w) ==
    Grid(h, w, [y \in 0 .. (h - 1), x \in 0 .. (w - 1) |->
        CASE pat = "flat" -> 7
          [] pat = "slope" -> 3 + 2 * x + y
          [] OTHER -> IF x = 0 /\ y = 0 THEN 40 ELSE 9])

ImagePatterns == {"grey", "stripes", "corner"}

ImagePattern(pat, h, w) ==
    Grid(h, w, [y \in 0 .. (h - 1), x \in 0 .. (w - 1) |->
        CASE pat = "grey" -> <<128, 128, 128>>
          [] pat = "stripes" -> <<(x % 2) * 255, (y % 2) * 255, 255 - (x % 2) * 255>>
          [] OTHER -> IF x = 0 /\ y = 0 THEN <<255, 200, 10>> ELSE <<0, 30, 90>>])

MaskPatterns == {"zeros", "ones", "half", "columns"}

MaskPattern(pat, h, w) ==
    Grid(h, w, [y \in 0 .. (h - 1), x \in 0 .. (w - 1) |->
        CASE pat = "zeros" -> 0
          [] pat = "ones" -> MaskDen
          [] pat = "half" -> MaskDen \div 2
          [] OTHER -> (x % 2) * MaskDen])

\* focus planes in [0, 1], in fine units
FocusPlanes == {0, Fine \div 4, Fine \div 2, Fine}

\* positive focus strengths, in tenths
Strengths == {1, 2, 10, 30, 250}

BlurRadii == {3, 5}

NoResult == Ok(0)

NoCase == [kind |-> "none", h |-> 0, w |-> 0, pat |-> "none", fp |-> 0, fs10 |-> 0,
           mpat |-> "none", r |-> 0]

NoOut == [phase |-> "input", depth |-> NoGrid, focus |-> NoResult, intensity |-> NoGrid,
          mask |-> NoGrid, blurred |-> NoGrid, result |-> NoGrid]

Cases ==
    LET shapes == GridSides \X GridSides
    IN {[NoCase EXCEPT !.kind = "normalize", !.h = s[1], !.w = s[2], !.pat = p] :
            s \in shapes, p \in RawPatterns}
       \cup {[NoCase EXCEPT !.kind = "pipeline", !.h = s[1], !.w = s[2], !.pat = p, !.fs10 = f] :
            s \in shapes, p \in DepthPatterns, f \in Strengths}
       \cup {[NoCase EXCEPT !.kind = "mask", !.h = x[1][1], !.w = x[1][2], !.pat = p,
                            !.fp = x[2], !.fs10 = x[3]] :
            x \in shapes \X FocusPlanes \X Strengths, p \in DepthPatterns}
       \cup {[NoCase EXCEPT !.kind = "blend", !.h = s[1], !.w = s[2], !.pat = x[1],
                            !.mpat = x[2], !.r = x[3]] :
            s \in shapes, x \in ImagePatterns \X MaskPatterns \X BlurRadii}

CaseDepth(c) == DepthPattern(c.pat, c.h, c.w)

CaseImage(c) == ImagePattern(c.pat, c.h, c.w)

CaseMask(c) == MaskPattern(c.mpat, c.h, c.w)

(* ------------------------------------------------------------------ *)
(* The stages applied to drawn inputs                                   *)
(* ------------------------------------------------------------------ *)

StageNormalize ==
    /\ tc.kind = "normalize" /\ out.phase = "input"
    /\ out' = [out EXCEPT !.phase = "normalized",
                          !.depth = NormalizeDepth(RawPattern(tc.pat, tc.h, tc.w))]
    /\ UNCHANGED <<processor, startup, loads, asked, req, tc, rz>>

StageFindFocus ==
    /\ tc.kind = "pipeline" /\ out.phase = "input"
    /\ out' = [out EXCEPT !.phase = "focused", !.depth = CaseDepth(tc),
                          !.focus = FindSubjectFocusPlane(CaseDepth(tc))]
    /\ UNCHANGED <<processor, startup, loads, asked, req, tc, rz>>

\* the mask for the focus plane the estimator computed
StageMaskComputed ==
    /\ tc.kind = "pipeline" /\ out.phase = "focused" /\ out.focus.ok
    /\ out' = [out EXCEPT !.phase = "masked",
                          !.intensity = BlurIntensity(out.depth, out.focus.val, FocusRange(tc.fs10)),
                          !.mask = CreateBlurMask(out.depth, out.focus.val, FocusRange(tc.fs10))]
    /\ UNCHANGED <<processor, startup, loads, asked, req, tc, rz>>

\* the mask for a given focus plane
StageMaskGiven ==
    /\ tc.kind = "mask" /\ out.phase = "input"
    /\ out' = [out EXCEPT !.phase = "masked", !.depth = CaseDepth(tc),
                          !.focus = Ok(tc.fp),
                          !.intensity = BlurIntensity(CaseDepth(tc), tc.fp, FocusRange(tc.fs10)),
                          !.mask = CreateBlurMask(CaseDepth(tc), tc.fp, FocusRange(tc.fs10))]
    /\ UNCHANGED <<processor, startup, loads, asked, req, tc, rz>>

StageBlend ==
    /\ tc.kind = "blend" /\ out.phase = "input"
    /\ out' = [out EXCEPT !.phase = "blended", !.mask = CaseMask(tc),
                          !.blurred = BlurImage(CaseImage(tc), tc.r),
                          !.result = ApplyDepthBlurOptimized(CaseImage(tc), CaseMask(tc), tc.r)]
    /\ UNCHANGED <<processor, startup, loads, asked, req, tc, rz>>

InitStages ==
    /\ tc \in Cases
    /\ out = NoOut
    /\ rz = <<>>
    /\ processor = NoProcessor
    /\ startup = "pending"
    /\ loads = 0
    /\ asked = <<>>
    /\ req = <<>>

NextStages ==
    \/ StageNormalize
    \/ StageFindFocus
    \/ StageMaskComputed
    \/ StageMaskGiven
    \/ StageBlend

SpecStages == InitStages /\ [][NextStages]_vars

(* ------------------------------------------------------------------ *)
(* The sizes through process_auto_focus                                 *)
(* ------------------------------------------------------------------ *)

\* largest original side
MaxSide == 700

OtherSides == {1, 2, 300, MaxSize, MaxSize + 1, 644}

OriginalSizes ==
    {<<a, b>> : a \in 1 .. MaxSide, b \in OtherSides} \cup {<<b, a>> : a \in 1 .. MaxSide, b \in OtherSides}

NoSizes == [pc |-> "start", ow |-> 0, oh |-> 0, scale_back |-> FALSE, pw |-> 0, ph |-> 0,
            dw |-> 0, dh |-> 0, rw |-> 0, rh |-> 0, iw |-> 0, ih |-> 0]

\* lines 187-199: the processing size; cv2.resize raises on an empty one
SizeForProcessing ==
    /\ rz.pc = "start"
    /\ LET size == ProcessingSize(rz.ow, rz.oh)
       IN rz' = [rz EXCEPT !.scale_back = size.scale_back, !.pw = size.w, !.ph = size.h,
                           !.pc = IF size.scale_back /\ (size.w <= 0 \/ size.h <= 0)
                                  THEN "failed" ELSE "sized"]
    /\ UNCHANGED <<processor, startup, loads, asked, req, tc, out>>

\* lines 203-215: depth map, mask and result have the processed image's shape
SizeThroughStages ==
    /\ rz.pc = "sized"
    /\ rz' = [rz EXCEPT !.pc = "processed", !.dw = rz.pw, !.dh = rz.ph, !.rw = rz.pw, !.rh = rz.ph]
    /\ UNCHANGED <<processor, startup, loads, asked, req, tc, out>>

\* lines 217-243: scaled back to (original_width, original_height)
SizeReturned ==
    /\ rz.pc = "processed"
    /\ rz' = [rz EXCEPT !.pc = "returned",
                        !.rw = IF rz.scale_back THEN rz.ow ELSE @,
                        !.rh = IF rz.scale_back THEN rz.oh ELSE @,
                        !.dw = IF rz.scale_back THEN rz.ow ELSE @,
                        !.dh = IF rz.scale_back THEN rz.oh ELSE @,
                        !.iw = rz.ow, !.ih = rz.oh]
    /\ UNCHANGED <<processor, startup, loads, asked, req, tc, out>>

InitResize ==
    /\ rz \in {[NoSizes EXCEPT !.ow = s[1], !.oh = s[2]] : s \in OriginalSizes}
    /\ processor = NoProcessor
    /\ startup = "pending"
    /\ loads = 0
    /\ asked = <<>>
    /\ req = <<>>
    /\ tc = <<>>
    /\ out = <<>>

NextResize ==
    \/ SizeForProcessing
    \/ SizeThroughStages
    \/ SizeReturned

SpecResize == InitResize /\ [][NextResize]_vars

\* C10: the pipeline downsamples exactly when max(width, height) > 512; the
\* processing size then has both sides at least 1, its larger side equal to
\* 512 and its sides in the original ratio up to one pixel of truncation;
\* image, depth map and image_size are returned at the original size.
C10_ProcessingSizeAndReturnSize ==
    rz.pc # "start"
        => LET m == Larger(rz.ow, rz.oh)
           IN /\ rz.scale_back <=> m > 512
              /\ rz.scale_back
                    => /\ rz.pw >= 1 /\ rz.ph >= 1
                       /\ Larger(rz.pw, rz.ph) = 512
                       /\ rz.ow * 512 - rz.pw * m \in 0 .. (m - 1)
                       /\ rz.oh * 512 - rz.ph * m \in 0 .. (m - 1)
              /\ rz.pc = "returned"
                    => /\ rz.rw = rz.ow /\ rz.rh = rz.oh
                       /\ rz.dw = rz.ow /\ rz.dh = rz.oh
                       /\ rz.iw = rz.ow /\ rz.ih = rz.oh

(* ------------------------------------------------------------------ *)
(* Properties of the stages                                             *)
(* ------------------------------------------------------------------ *)

\* the central sub-region's height and width
RegionHeight(h) == (3 * h) \div 4 - h \div 4

\* C4: for a uniform depth map and a positive focus_strength, the mask built
\* for the focus plane the estimator computes is zero at every pixel.
C4_UniformMapGivesZeroMask ==
    (tc.kind = "pipeline" /\ out.phase = "masked" /\ tc.pat \in UniformPatterns /\ tc.fs10 > 0)
        => \A p \in DOMAIN out.mask.v : out.mask.v[p] = 0

\* C5: normalising a flat raw depth map (max = min) yields zero at every
\* pixel, so no undefined value is handed on.
C5_FlatMapNormalizesToZero ==
    (tc.kind = "normalize" /\ out.phase = "normalized"
        /\ Cardinality(Values(RawPattern(tc.pat, tc.h, tc.w))) = 1)
        => \A p \in DOMAIN out.depth.v : out.depth.v[p] = 0

\* C6: a central sub-region below 4 pixels in height or width makes the
\* estimator fail with InsufficientResolution; any larger normalised map
\* gives a focus plane in [0, 1].
C6_SmallRegionRejectedElseInUnitRange ==
    (tc.kind = "pipeline" /\ out.phase \in {"focused", "masked"})
        => IF RegionHeight(tc.h) < 4 \/ RegionHeight(tc.w) < 4
           THEN ~out.focus.ok /\ out.focus.exc.type = "InsufficientResolution"
           ELSE out.focus.ok /\ out.focus.val \in 0 .. Fine

\* C7: with a mask of zero everywhere the compositor returns the original
\* image exactly; with a mask of one everywhere it returns the single
\* large-kernel blurred rendition exactly.
C7_ZeroMaskOriginalOneMaskBlurred ==
    (tc.kind = "blend" /\ out.phase = "blended")
        => /\ tc.mpat = "zeros" => out.result = CaseImage(tc)
           /\ tc.mpat = "ones" => out.result = out.blurred

C7_Witness ==
    /\ tc.kind = "blend" /\ out.phase = "blended" /\ tc.mpat = "ones"
    /\ out.result # CaseImage(tc)
    /\ out.result = BlurImage(CaseImage(tc), tc.r)

\* C8: for a normalised depth map, a focus plane in [0, 1] and a positive
\* focus range, the intensity before smoothing is in [0, 1] at every pixel,
\* is 0 wherever |depth - focus_plane| <= focus_range, and outside that band
\* grows weakly with |depth - focus_plane|.
C8_IntensityBoundedZeroInBandMonotone ==
    (out.phase = "masked" /\ out.focus.val \in 0 .. Fine /\ tc.fs10 > 0)
        => LET d(p) == Abs(200 * out.depth.v[p] - out.focus.val)
               inband(p) == d(p) * tc.fs10 <= Fine
               P == DOMAIN out.depth.v
           IN /\ \A p \in P : out.intensity.v[p] \in 0 .. MaskDen
              /\ \A p \in P : inband(p) => out.intensity.v[p] = 0
              /\ \A p, q \in P : (~inband(p) /\ ~inband(q) /\ d(p) <= d(q))
                                    => out.intensity.v[p] <= out.intensity.v[q]

C8_Witness ==
    /\ tc.kind = "mask" /\ out.phase = "masked" /\ tc.fs10 > 0
    /\ LET d(p) == Abs(200 * out.depth.v[p] - out.focus.val)
           inband(p) == d(p) * tc.fs10 <= Fine
           P == DOMAIN out.depth.v
       IN /\ \E p \in P : inband(p) /\ d(p) > 0 /\ out.intensity.v[p] = 0
          /\ \E p, q \in P : /\ ~inband(p) /\ ~inband(q) /\ d(p) < d(q)
                             /\ 0 < out.intensity.v[p]
                             /\ out.intensity.v[p] < out.intensity.v[q]

(* ------------------------------------------------------------------ *)
(* Properties of the calls                                              *)
(* ------------------------------------------------------------------ *)

\* the spec's InvalidParameter, as the code reports it
IsInvalidParameter(resp) ==
    /\ resp.status = 400
    /\ resp.detail \in {"focus_strength must be between 0.1 and 3.0",
                        "blur_radius must be between 3 and 50"}

\* the spec's DepthModelUnavailable, as the code reports it
IsModelUnavailable(resp) ==
    /\ resp.kind = "HTTPException" /\ resp.status = 503 /\ resp.detail = "Depth model not loaded"

\* C1: a request with focus_strength = 0 fails with InvalidParameter on every
\* path that reaches the focus_range computation, through the endpoint and
\* through process_auto_focus directly; the division is never run with a zero
\* divisor and is never reported as another kind of error.
C1_ZeroStrengthIsInvalidParameter ==
    \A r \in Requests :
        (asked[r] # NoArgs /\ asked[r].focus_strength = 0)
            => /\ "focus_range" \notin req[r].stages
               /\ req[r].raised.type # "ZeroDivisionError"
               /\ req[r].pc = "done"
                     => \/ IsInvalidParameter(req[r].response)
                        \/ IsModelUnavailable(req[r].response)
                        \/ req[r].response.detail = "File must be an image"
                        \/ req[r].raised # NoExc

\* the stages named by the propagation policy
PipelineStages == {"depth", "focus", "focus_range", "mask", "blur"}

FailedInStage(f) == f.pc = "done" /\ f.raised # NoExc /\ f.stages \cap PipelineStages # {}

C3_UnloadedRequestRejectedNoStageNoReload ==
    /\ \A r \in Requests :
          req[r].seen = "no"
              => /\ req[r].pc = "done"
                 /\ IsModelUnavailable(req[r].response)
                 /\ req[r].stages = {}
    /\ \A r \in Requests : req[r].stages # {} => req[r].seen = "yes"
    /\ loads = IF startup = "pending" THEN 0 ELSE 1

C3_Witness ==
    \E r, s \in Requests :
        /\ req[r].seen = "no" /\ req[r].pc = "done" /\ asked[r].via = "endpoint"
        /\ req[s].seen = "no" /\ req[s].pc = "done" /\ asked[s].via = "direct"
        /\ startup = "failed" /\ loads = 1

\* a call's locals while it runs are those its own arguments give
\* a step of one call leaves the locals of every other call and the processor alone
StepsAlone(r) ==
    req'[r] # req[r] => /\ processor' = processor
                        /\ \A s \in Requests \ {r} : req'[s] = req[s]
                        /\ req'[r].pc \notin {"new", "read"} => req'[r].args = asked'[r]

\* a call that entered process_auto_focus ends as the same call run alone
EndsAsAlone(r) ==
    (req[r].pc \notin {"new", "done"} /\ req'[r].pc = "done")
        => req'[r] = ProcessAutoFocus(asked[r], [processor EXCEPT !.models_loaded = req'[r].seen = "yes"])

\* C9: whatever the interleaving, a step of one call changes no other call's
\* image, depth map, mask or result, a call ends with the locals and the
\* result of the same call run alone on its own arguments, a finished call's
\* result is not touched again, and no call writes model, transform,
\* models_loaded or device.
C9_CallsAreIsolated ==
    [][\A r \in Requests :
            /\ StepsAlone(r)
            /\ EndsAsAlone(r)
            /\ req[r].pc = "done" => req'[r] = req[r] /\ asked'[r] = asked[r]]_vars

C9_Witness ==
    /\ req[1].pc = "done" /\ req[1].response.status = 200
    /\ req[2].pc = "done" /\ req[2].response.status = 200
    /\ asked[1].via # asked[2].via
    /\ req[1].response.body = ProcessAutoFocus(asked[1], processor).response.body
    /\ req[1].response.body.processed_image # Encoded(DecodeImage(asked[1].image_bytes).val)


====
